---------------------------- MODULE Spec2Model ----------------------------
(***************************************************************************)
(* A model of the packed-archive reader: the bit pump, the canonical       *)
(* Huffman codec, the inflate engine and the archive reader of the Go      *)
(* sources.  32-bit unsigned values are bit vectors (index 1 is the most   *)
(* significant bit), so that shifts, ors, wrap-around and comparisons are  *)
(* those of uint32.                                                        *)
(***************************************************************************)
EXTENDS Integers, Sequences, FiniteSets, TLC

\* width of uint32, the type of State.Head, State.Buffer and the input words
WordBits == 32

\* the codec's constants
MAX_SYMBOL_VALUE == 285
MAX_CODE_BITS_LENGTH == 32
BlockSize == 16384

---------------------------------------------------------------------------
(* uint32 arithmetic                                                       *)

Bit == {0, 1}
\* a bit vector as a tuple of 32 bits
Vec(f) == SubSeq(f, 1, WordBits)
Zero32 == Vec([i \in 1..WordBits |-> 0])
Ones32 == Vec([i \in 1..WordBits |-> 1])

\* x << k and x >> k of Go: a count of 32 or more gives 0
Shl(x, k) == Vec([i \in 1..WordBits |-> IF i + k <= WordBits THEN x[i + k] ELSE 0])
Shr(x, k) == Vec([i \in 1..WordBits |-> IF i - k >= 1 THEN x[i - k] ELSE 0])
BitOr(x, y) == Vec([i \in 1..WordBits |-> IF x[i] + y[i] > 0 THEN 1 ELSE 0])
BitNot(x) == Vec([i \in 1..WordBits |-> 1 - x[i]])

\* the 16 bits of x after its first o bits, as a number
Half(x, o) ==
  (((32768 * x[o + 1] + 16384 * x[o + 2]) + (8192 * x[o + 3] + 4096 * x[o + 4]))
    + ((2048 * x[o + 5] + 1024 * x[o + 6]) + (512 * x[o + 7] + 256 * x[o + 8])))
  + (((128 * x[o + 9] + 64 * x[o + 10]) + (32 * x[o + 11] + 16 * x[o + 12]))
    + ((8 * x[o + 13] + 4 * x[o + 14]) + (2 * x[o + 15] + x[o + 16])))
\* x + y + cin modulo 2^32, added half by half
AddC(x, y, cin) ==
  LET lo == Half(x, 16) + Half(y, 16) + cin
      hi == Half(x, 0) + Half(y, 0) + (lo \div 65536)
  IN  Vec([i \in 1..WordBits |->
             IF i <= 16 THEN (hi \div (2 ^ (16 - i))) % 2
             ELSE (lo \div (2 ^ (WordBits - i))) % 2])
Add32(x, y) == AddC(x, y, 0)
Sub32(x, y) == AddC(x, BitNot(y), 1)
Inc32(x) == AddC(x, Zero32, 1)
Dec32(x) == AddC(x, Ones32, 0)

\* x < y of two uint32
Less32(x, y) ==
  \E i \in 1..WordBits : x[i] < y[i] /\ \A j \in 1..(i - 1) : x[j] = y[j]

\* x as a number; x must be below 2^31
ToNat(x) == 65536 * Half(x, 0) + Half(x, 16)
Fits31(x) == x[1] = 0
\* the uint32 of a number below 2^31
FromNat(n) ==
  Vec([i \in 1..WordBits |-> IF i = 1 THEN 0 ELSE (n \div (2 ^ (WordBits - i))) % 2])
\* uint16(x): the low 16 bits
Low16(x) == Half(x, 16)


---------------------------------------------------------------------------
(* State: every variable of the model.  Each specification below drives    *)
(* its own variables and leaves the others at their initial value.         *)

VARIABLES
  stateData,   \* the bit pump's State of the call in progress
  pump,        \* the caller of the bit pump: the field being read, and a log
  codec,       \* a tree under construction and the symbols decoded with it
  call,        \* the locals of the inflateBuffer call in progress
  huffmanTreeDict,            \* the process-wide dictionary tree
  huffmanTreeDictInitialized, \* and its flag
  callers,     \* inflateBuffer calls running side by side on the two globals
  extraction   \* the locals of the extractMFTData call in progress

vars == <<stateData, pump, codec, call, huffmanTreeDict, huffmanTreeDictInitialized,
          callers, extraction>>
\* what each specification leaves alone
dictVars == <<huffmanTreeDict, huffmanTreeDictInitialized>>
notPump == <<codec, call, dictVars, callers, extraction>>
notCodec == <<pump, call, dictVars, callers, extraction>>
notInflate == <<pump, codec, callers, extraction>>
notDict == <<stateData, pump, codec, call, extraction>>
notExtract == <<stateData, pump, codec, call, callers>>
Idle == [pc |-> "idle"]

---------------------------------------------------------------------------
(* The bit pump                                                            *)

\* InputData is either an explicit array of words, or the array of the given
\* size whose word at index i is the number i
WordAt(data, p) ==
  IF data.kind = "words" THEN data.words[p + 1] ELSE FromNat(p)
SizeOf(data) ==
  IF data.kind = "words" THEN Len(data.words) ELSE data.size

\* the State literal of inflateBuffer
NewState(data) ==
  [InputData |-> data, InputSize |-> SizeOf(data), InputPosition |-> 0,
   Head |-> Zero32, Bits |-> 0, Buffer |-> Zero32, halt |-> "run"]

\* log.Fatal and os.Exit end the process; a failed bounds check panics
Fatal(s) == [s EXCEPT !.halt = "fatal"]
Panic(s) == [s EXCEPT !.halt = "panic"]

\* (mutant) the skip placed after the block instead of on its last word
SkipAtBoundary_AfterBlock(p) == IF p > 0 /\ p % BlockSize = 0 THEN p + 1 ELSE p

\* the cursor pullByte reads at: one word is skipped at a block boundary
SkipAtBoundary(p) == IF (p + 1) % BlockSize = 0 THEN p + 1 ELSE p

pullByte(s) ==
  IF s.halt # "run" THEN s
  ELSE IF s.Bits >= 32 THEN Fatal(s)
  ELSE LET p == SkipAtBoundary(s.InputPosition) IN
       IF p >= s.InputSize THEN Fatal([s EXCEPT !.InputPosition = p])
       ELSE LET tempValue == WordAt(s.InputData, p) IN
            [s EXCEPT
               !.Head = IF s.Bits = 0 THEN tempValue
                        ELSE BitOr(s.Head, Shr(tempValue, s.Bits)),
               !.Buffer = IF s.Bits = 0 THEN Zero32
                          ELSE Shl(tempValue, 32 - s.Bits),
               !.Bits = s.Bits + 32,
               !.InputPosition = p + 1]

needBits(s, bits) ==
  IF s.halt # "run" THEN s
  ELSE IF bits > 32 THEN Fatal(s)
  ELSE IF s.Bits < bits THEN pullByte(s)
  ELSE s

\* (mutant) the bits shifted out of Head are not refilled from Buffer
dropBits_NoRefill(s, bits) ==
  IF s.halt # "run" THEN s
  ELSE IF bits > 32 THEN Fatal(s)
  ELSE IF bits > s.Bits THEN Fatal(s)
  ELSE [s EXCEPT
          !.Head = IF bits = 32 THEN s.Buffer ELSE Shl(s.Head, bits),
          !.Buffer = IF bits = 32 THEN Zero32 ELSE Shl(s.Buffer, bits),
          !.Bits = s.Bits - bits]

dropBits(s, bits) ==
  IF s.halt # "run" THEN s
  ELSE IF bits > 32 THEN Fatal(s)
  ELSE IF bits > s.Bits THEN Fatal(s)
  ELSE [s EXCEPT
          !.Head = IF bits = 32 THEN s.Buffer
                   ELSE BitOr(Shl(s.Head, bits), Shr(s.Buffer, 32 - bits)),
          !.Buffer = IF bits = 32 THEN Zero32 ELSE Shl(s.Buffer, bits),
          !.Bits = s.Bits - bits]

readBits(s, bits) == Shr(s.Head, 32 - bits)

---------------------------------------------------------------------------
(* The Huffman codec                                                       *)

\* an array element of a Go array of MAX_SYMBOL_VALUE zeroed elements of which
\* the model keeps the written prefix, at a 0-based index below that size
Elem(arr, i, zero) == IF i < Len(arr) THEN arr[i + 1] ELSE zero

\* HuffmanTree{}
EmptyTree ==
  [SymbolValues |-> <<>>, CompressedCodes |-> <<>>, BitsLength |-> <<>>,
   SymbolValueOffset |-> <<>>]

\* an array of n elements v, indexed from 0 (held as an explicit table)
ArrayOf(n, v) == [i \in 0..(n - 1) |-> v] @@ <<>>
\* the working tables with every entry -1
EmptyTabs ==
  [bitTab |-> ArrayOf(MAX_CODE_BITS_LENGTH, -1),
   codeTab |-> ArrayOf(MAX_SYMBOL_VALUE, -1),
   halt |-> "run"]

fillTabsHelper(bits, symbol, tabs) ==
  IF tabs.halt # "run" THEN tabs
  ELSE IF bits >= MAX_CODE_BITS_LENGTH THEN tabs
  ELSE IF symbol >= MAX_SYMBOL_VALUE THEN tabs
  ELSE IF tabs.bitTab[bits] = -1
       THEN [tabs EXCEPT !.bitTab[bits] = symbol]
  ELSE IF symbol < 0 THEN [tabs EXCEPT !.halt = "panic"]
  ELSE [tabs EXCEPT !.codeTab[symbol] = tabs.bitTab[bits],
                    !.bitTab[bits] = symbol]

\* Loops of the code are run by doubling: Loop(k, x) runs up to 2^k passes
\* and stops at the first state that ends the loop, so that a loop of many
\* passes nests only k deep.

\* one pass of the inner loop of createHuffmanTree: the chain of a bit length
WalkStep(w, codeTab) ==
  IF Len(w.tree.SymbolValues) >= MAX_SYMBOL_VALUE
       \/ w.tempSymbol \notin DOMAIN codeTab
  THEN [w EXCEPT !.halt = "panic"]
  ELSE [w EXCEPT !.tree.SymbolValues = Append(@, w.tempSymbol),
                 !.tempSymbol = codeTab[w.tempSymbol],
                 !.tempCode = Dec32(@)]
RECURSIVE WalkLoop(_, _, _)
WalkLoop(k, w, codeTab) ==
  IF w.halt # "run" \/ w.tempSymbol = -1 THEN w
  ELSE IF k = 0 THEN WalkStep(w, codeTab)
  ELSE WalkLoop(k - 1, WalkLoop(k - 1, w, codeTab), codeTab)
\* the loop ends within MAX_SYMBOL_VALUE + 1 < 2^9 passes
WalkChain(w, codeTab) == WalkLoop(9, w, codeTab)

\* the end of a pass of the outer loop that walked the chain c of tempBits:
\* the class of tempBits is recorded
CloseClass(c, tempBits) ==
  IF c.halt # "run" THEN c
  ELSE [c EXCEPT
          !.tree.CompressedCodes = Append(@, Shl(Inc32(c.tempCode), 32 - tempBits)),
          !.tree.BitsLength = Append(@, tempBits),
          !.tree.SymbolValueOffset = Append(@, Len(c.tree.SymbolValues) - 1),
          !.tempCode = Inc32(Shl(c.tempCode, 1)),
          !.tempBits = @ + 1]
\* one pass of the outer loop of createHuffmanTree, at bit length w.tempBits
BuildStep(w, tabs) ==
  IF tabs.bitTab[w.tempBits] # -1
  THEN CloseClass(WalkChain([w EXCEPT !.tempSymbol = tabs.bitTab[w.tempBits]],
                            tabs.codeTab),
                  w.tempBits)
  ELSE [w EXCEPT !.tempCode = Inc32(Shl(w.tempCode, 1)), !.tempBits = @ + 1]
RECURSIVE BuildLoop(_, _, _)
BuildLoop(k, w, tabs) ==
  IF w.halt # "run" \/ w.tempBits >= MAX_CODE_BITS_LENGTH THEN w
  ELSE IF k = 0 THEN BuildStep(w, tabs)
  ELSE BuildLoop(k - 1, BuildLoop(k - 1, w, tabs), tabs)
\* the outer loop of createHuffmanTree: MAX_CODE_BITS_LENGTH = 2^5 passes
BuildFrom(w, tabs) == BuildLoop(5, w, tabs)

\* the tree built into a zeroed ioHuffmanTree, and whether the build panicked
BuiltTree(w) == [tree |-> w.tree, halt |-> w.halt]
createHuffmanTree(tabs) ==
  IF tabs.halt # "run" THEN [tree |-> EmptyTree, halt |-> tabs.halt]
  ELSE BuiltTree(BuildFrom([tree |-> EmptyTree, tempCode |-> Zero32, tempBits |-> 0,
                            tempSymbol |-> -1, halt |-> "run"], tabs))

\* (mutant) the scan that stops at the first code above bitsRead
RECURSIVE ScanCodes_Below(_, _, _)
ScanCodes_Below(tree, bitsRead, tempIndex) ==
  IF tempIndex < Len(tree.CompressedCodes)
       /\ ~Less32(bitsRead, Elem(tree.CompressedCodes, tempIndex, Zero32))
  THEN ScanCodes_Below(tree, bitsRead, tempIndex + 1)
  ELSE tempIndex

\* the scan of readCode: the first index whose code is not above bitsRead
RECURSIVE ScanCodes(_, _, _)
ScanCodes(tree, bitsRead, tempIndex) ==
  IF Less32(bitsRead, Elem(tree.CompressedCodes, tempIndex, Zero32))
  THEN ScanCodes(tree, bitsRead, tempIndex + 1)
  ELSE tempIndex

\* the index into SymbolValues of the code read (uint16 arithmetic)
SymbolAt(tree, bitsRead, tempIndex, tempBits) ==
  (Elem(tree.SymbolValueOffset, tempIndex, 0)
     - Low16(Shr(Sub32(bitsRead, Elem(tree.CompressedCodes, tempIndex, Zero32)),
                 32 - tempBits))) % 65536
\* the end of readCode: the symbol is fetched and its bits are dropped
readCodeTake(tree, n, tempBits, at) ==
  IF at >= MAX_SYMBOL_VALUE THEN [s |-> Panic(n), code |-> 0]
  ELSE [s |-> dropBits(n, tempBits), code |-> Elem(tree.SymbolValues, at, 0)]
\* readCode after its scan found the class tempIndex
readCodeClass(tree, n, bitsRead, tempIndex) ==
  readCodeTake(tree, n, Elem(tree.BitsLength, tempIndex, 0),
               SymbolAt(tree, bitsRead, tempIndex,
                        Elem(tree.BitsLength, tempIndex, 0)))
\* readCode after needBits(stateData, 32)
readCodeFrom(tree, n) ==
  IF n.halt # "run" THEN [s |-> n, code |-> 0]
  ELSE readCodeClass(tree, n, readBits(n, 32),
                     ScanCodes(tree, readBits(n, 32), 0))
\* readCode: the new State and *ioCode
readCode(tree, s) ==
  IF s.halt # "run" THEN [s |-> s, code |-> 0]
  ELSE IF Elem(tree.CompressedCodes, 0, Zero32) = Zero32
       THEN [s |-> Fatal(s), code |-> 0]
  ELSE readCodeFrom(tree, needBits(s, 32))

---------------------------------------------------------------------------
(* The dictionary tree and the per-stream trees                            *)

\* the bits and symbols tables of initializeHuffmanTreeDict, verbatim
DictBits ==
  <<3, 3, 3, 4, 4, 4, 4, 5, 5, 5, 5, 6, 6, 6, 6, 6, 6, 6, 6, 7, 7, 7, 7,
    7, 7, 7, 8, 8, 8, 8, 8, 8, 9, 9, 9, 9, 9, 9, 9, 9, 9, 9, 10, 10, 10,
    10, 10, 10, 10, 10, 10, 10, 10, 10, 10, 10, 10, 10, 11, 11, 11, 11,
    11, 11, 11, 11, 11, 11, 11, 11, 11, 12, 12, 12, 12, 12, 12, 12, 13,
    13, 13, 13, 13, 13, 14, 14, 14, 14, 15, 15, 15, 15, 15, 15, 15, 15,
    16, 16, 16, 16, 16, 16, 16, 16, 16, 16, 16, 16, 16, 16, 16, 16, 16,
    16, 16, 16, 16, 16, 16, 16, 16, 16, 16, 16, 16, 16, 16, 16, 16, 16,
    16, 16, 16, 16, 16, 16, 16, 16, 16, 16, 16, 16, 16, 16, 16, 16, 16,
    16, 16, 16, 16, 16, 16, 16, 16, 16, 16, 16, 16, 16, 16, 16, 16, 16,
    16, 16, 16, 16, 16, 16, 16, 16, 16, 16, 16, 16, 16, 16, 16, 16, 16,
    16, 16, 16, 16, 16, 16, 16, 16, 16, 16, 16, 16, 16, 16, 16, 16, 16,
    16, 16, 16, 16, 16, 16, 16, 16, 16, 16, 16, 16, 16, 16, 16, 16, 16,
    16, 16, 16, 16, 16, 16, 16, 16, 16, 16, 16, 16, 16, 16, 16, 16, 16,
    16, 16, 16, 16, 16, 16, 16, 16, 16, 16, 16, 16, 16, 16, 16, 16, 16,
    16, 16, 16, 16, 16, 16, 16>>

DictSymbols ==
  <<10, 9, 8, 12, 11, 7, 0, 224, 42, 41, 6, 74, 64, 44, 43, 40, 32, 5, 4,
    73, 72, 39, 38, 37, 13, 3, 106, 105, 76, 75, 71, 36, 232, 160, 137,
    136, 104, 103, 99, 96, 70, 35, 233, 201, 192, 169, 168, 138, 135,
    128, 102, 101, 69, 68, 67, 45, 2, 1, 229, 200, 170, 165, 164, 139,
    133, 132, 108, 107, 100, 77, 14, 231, 202, 199, 167, 166, 134, 131,
    230, 228, 196, 140, 46, 34, 236, 198, 109, 78, 234, 204, 172, 171,
    141, 17, 16, 15, 255, 254, 253, 252, 251, 250, 249, 248, 247, 246,
    245, 244, 243, 242, 241, 240, 239, 238, 237, 235, 227, 226, 225, 223,
    222, 221, 220, 219, 218, 217, 216, 215, 214, 213, 212, 211, 210, 209,
    208, 207, 206, 205, 203, 197, 195, 194, 193, 191, 190, 189, 188, 187,
    186, 185, 184, 183, 182, 181, 180, 179, 178, 177, 176, 175, 174, 173,
    163, 162, 161, 159, 158, 157, 156, 155, 154, 153, 152, 151, 150, 149,
    148, 147, 146, 145, 144, 143, 142, 130, 129, 127, 126, 125, 124, 123,
    122, 121, 120, 119, 118, 117, 116, 115, 114, 113, 112, 111, 110, 98,
    97, 95, 94, 93, 92, 91, 90, 89, 88, 87, 86, 85, 84, 83, 82, 81, 80,
    79, 66, 65, 63, 62, 61, 60, 59, 58, 57, 56, 55, 54, 53, 52, 51, 50,
    49, 48, 47, 33, 31, 30, 29, 28, 27, 26, 25, 24, 23, 22, 21, 20, 19, 18>>

\* the loop of initializeHuffmanTreeDict over the pairs lo..hi, in order
RECURSIVE RegisterPairs(_, _, _)
RegisterPairs(lo, hi, tabs) ==
  IF tabs.halt # "run" \/ lo > hi THEN tabs
  ELSE IF lo = hi THEN fillTabsHelper(DictBits[lo], DictSymbols[lo], tabs)
  ELSE LET mid == (lo + hi) \div 2
       IN  RegisterPairs(mid + 1, hi, RegisterPairs(lo, mid, tabs))

\* the working tables of initializeHuffmanTreeDict after its 256 calls of
\* fillTabsHelper
DictTabs == RegisterPairs(1, Len(DictBits), EmptyTabs)

\* the value initializeHuffmanTreeDict leaves in huffmanTreeDict
initializeHuffmanTreeDict == createHuffmanTree(DictTabs).tree

\* int16(x) of Go: x modulo 2^16 as a signed value
Int16(x) == LET m == x % 65536 IN IF m >= 32768 THEN m - 65536 ELSE m

\* the inner for loop of parseHuffmanTree: count symbols registered under bits
RECURSIVE RegisterRun(_, _, _, _)
RegisterRun(tabs, remainingSymbol, bits, count) ==
  IF count <= 0 \/ tabs.halt # "run"
  THEN [tabs |-> tabs, remainingSymbol |-> remainingSymbol]
  ELSE IF tabs.bitTab[bits] = -1
       THEN RegisterRun([tabs EXCEPT !.bitTab[bits] = remainingSymbol],
                        Int16(remainingSymbol - 1), bits, count - 1)
  ELSE IF remainingSymbol \notin DOMAIN tabs.codeTab
       THEN [tabs |-> [tabs EXCEPT !.halt = "panic"],
             remainingSymbol |-> remainingSymbol]
  ELSE RegisterRun([tabs EXCEPT !.codeTab[remainingSymbol] = tabs.bitTab[bits],
                                !.bitTab[bits] = remainingSymbol],
                   Int16(remainingSymbol - 1), bits, count - 1)

\* the end of a pass that registered a run of symbols
ParseRun(s, q) == [s |-> s, tabs |-> q.tabs, remainingSymbol |-> q.remainingSymbol]
\* a pass of the loop after its readCode
ParseCode(w, r) ==
  IF r.s.halt # "run" THEN [w EXCEPT !.s = r.s]
  ELSE IF r.code % 32 = 0
       THEN [w EXCEPT !.s = r.s,
                      !.remainingSymbol = Int16(@ - ((r.code \div 32) + 1))]
  ELSE ParseRun(r.s, RegisterRun(w.tabs, w.remainingSymbol, r.code % 32,
                                 (r.code \div 32) + 1))
\* one pass of the loop "for remainingSymbol >= 0" of parseHuffmanTree
ParseStep(dict, w) == ParseCode(w, readCode(dict, w.s))
RECURSIVE ParseLoopN(_, _, _)
ParseLoopN(k, dict, w) ==
  IF w.s.halt # "run" \/ w.tabs.halt # "run" \/ w.remainingSymbol < 0 THEN w
  ELSE IF k = 0 THEN ParseStep(dict, w)
  ELSE ParseLoopN(k - 1, dict, ParseLoopN(k - 1, dict, w))
\* the loop "for remainingSymbol >= 0": every pass lowers remainingSymbol, and
\* an alphabet of the model is described within 2^9 passes; a longer loop
\* is reported as halt = "bound"
ParseBound(w) ==
  IF w.s.halt = "run" /\ w.tabs.halt = "run" /\ w.remainingSymbol >= 0
  THEN [w EXCEPT !.s.halt = "bound"]
  ELSE w
ParseLoop(dict, s, tabs, remainingSymbol) ==
  ParseBound(ParseLoopN(9, dict, [s |-> s, tabs |-> tabs,
                                  remainingSymbol |-> remainingSymbol]))

\* the end of parseHuffmanTree: the tree built from the tables
parseDone(s, built) ==
  IF built.halt # "run" THEN [s |-> Panic(s), tree |-> built.tree]
  ELSE [s |-> s, tree |-> built.tree]
\* parseHuffmanTree after its loop
parseBuild(p) ==
  IF p.s.halt # "run" THEN [s |-> p.s, tree |-> EmptyTree]
  ELSE parseDone(p.s, createHuffmanTree(p.tabs))
\* parseHuffmanTree after needBits(stateData, 16): the number of symbols
\* is read as a uint16 and converted to int16
parseCount(dict, n) ==
  IF n.halt # "run" THEN [s |-> n, tree |-> EmptyTree]
  ELSE parseBuild(ParseLoop(dict, dropBits(n, 16), EmptyTabs,
                            Int16(Int16(Low16(readBits(n, 16))) - 1)))
\* parseHuffmanTree: the new State and the tree parsed into a zeroed tree
\* (a count above MAX_SYMBOL_VALUE is only reported on stderr; parsing goes on)
parseHuffmanTree(dict, s) == parseCount(dict, needBits(s, 16))

---------------------------------------------------------------------------
(* The inflate engine.  A call is the record c of inflateBuffer's and      *)
(* inflateData's locals, s its State, d the process-wide dictionary tree   *)
(* with its flag; each operator below is one stretch of the code.          *)

\* convertU8ToU32: four bytes to a word, least significant byte first
ByteBits(b) == [i \in 1..8 |-> (b \div (2 ^ (8 - i))) % 2]
WordOfBytes(b0, b1, b2, b3) ==
  Vec(ByteBits(b3) \o ByteBits(b2) \o ByteBits(b1) \o ByteBits(b0))
convertU8ToU32(input) ==
  [kind |-> "words",
   words |-> SubSeq([i \in 1..(Len(input) \div 4) |->
                       WordOfBytes(input[4 * i - 3], input[4 * i - 2],
                                   input[4 * i - 1], input[4 * i])],
                    1, Len(input) \div 4)]

\* the locals of a call before it starts; cap is *outputBufferSize on entry
\* (the field cap keeps it for the properties, ioOutputBufferSize is the
\* variable the call overwrites); fields counts the 8-bit fields the call
\* has consumed and blocks the passes of the outer loop it has begun;
\* distanceCode and distanceBase keep the copy code read last and the write
\* offset computed from it before its additional bits
NewCall(input, cap, custom) ==
  [pc |-> "enter", inputBuffer |-> input, customOutputBufferSize |-> custom,
   cap |-> cap, ioOutputBufferSize |-> cap, err |-> "",
   outputBuffer |-> <<>>, outputBufferSize |-> 0, tempOutputPosition |-> 0,
   writeSizeConstantAddition |-> 0,
   huffmanTreeSymbol |-> EmptyTree, huffmanTreeCopy |-> EmptyTree,
   maxCount |-> 0, currentCodeReadCount |-> 0,
   writeSize |-> 0, writeOffset |-> 0, alreadyWritten |-> 0,
   fields |-> 0, blocks |-> 0, distanceCode |-> 0, distanceBase |-> 0]

\* (mutant) the larger of the declared size and the cap
CappedSize_Larger(declared, cap) ==
  IF cap # 0 /\ declared < cap THEN cap ELSE declared

\* the size inflateBuffer reports: the declared size, cut to a non-zero cap
CappedSize(declared, cap) ==
  IF cap # 0 /\ declared > cap THEN cap ELSE declared

\* tempOutputBufferSize at the allocation and at the call of inflateData
AllocatedSize(capped, custom) == IF custom > 0 THEN custom ELSE capped

\* the end of inflateBuffer before inflateData: the size is reported through
\* outputBufferSize and the buffer is allocated
inflateBufferAlloc(m, d, s3, capped) ==
  [m EXCEPT !.d = d, !.s = s3,
            !.c.pc = "data",
            !.c.ioOutputBufferSize = capped,
            !.c.outputBuffer =
               SubSeq([i \in 1..AllocatedSize(capped, m.c.customOutputBufferSize) |-> 0],
                      1, AllocatedSize(capped, m.c.customOutputBufferSize)),
            !.c.outputBufferSize = AllocatedSize(capped, m.c.customOutputBufferSize)]
\* inflateBuffer at the declared size, s2 the State after needBits (the
\* declared size is below 2^31 in every input of the model)
inflateBufferSize(m, d, s2) ==
  IF s2.halt # "run" THEN [m EXCEPT !.d = d, !.s = s2]
  ELSE inflateBufferAlloc(m, d, dropBits(s2, 32),
                          CappedSize(ToNat(readBits(s2, 32)), m.c.ioOutputBufferSize))
\* inflateBuffer after the dictionary tree is there: d is the tree and flag
inflateBufferWith(m, d) ==
  IF Elem(d.tree.CompressedCodes, 0, Zero32) = Zero32
  THEN [m EXCEPT !.d = d, !.c.pc = "return", !.c.err = "huffman tree empty"]
  ELSE IF Len(m.c.inputBuffer) % 4 # 0
  THEN [m EXCEPT !.d = d, !.c.pc = "return",
                 !.c.err = "failed to convert input buffer"]
  ELSE inflateBufferSize(m, d,
         needBits(dropBits(needBits(NewState(convertU8ToU32(m.c.inputBuffer)), 32),
                           32), 32))
\* inflateBuffer up to its call of inflateData
inflateBufferEnter(m) ==
  inflateBufferWith(m, IF m.d.initialized THEN m.d
                       ELSE [tree |-> initializeHuffmanTreeDict, initialized |-> TRUE])

\* inflateData before its loop: the constant added to every write size
inflateDataStart(m, s2, k) ==
  IF s2.halt # "run" THEN [m EXCEPT !.s = s2]
  ELSE [m EXCEPT !.s = s2, !.c.pc = "block", !.c.writeSizeConstantAddition = k,
                 !.c.fields = @ + 1]
inflateDataK(m, s1) == inflateDataStart(m, dropBits(s1, 4), ToNat(readBits(s1, 4)) + 1)
inflateDataEnter(m) == inflateDataK(m, dropBits(needBits(m.s, 8), 4))

\* the head of the outer loop after both trees: MaxCount
inflateDataMaxCount(m, a, b, s1) ==
  IF s1.halt # "run"
  THEN [m EXCEPT !.s = s1, !.c.huffmanTreeSymbol = a.tree,
                 !.c.huffmanTreeCopy = b.tree]
  ELSE [m EXCEPT !.s = dropBits(s1, 4), !.c.pc = "code",
                 !.c.huffmanTreeSymbol = a.tree,
                 !.c.huffmanTreeCopy = b.tree,
                 !.c.maxCount = (ToNat(readBits(s1, 4)) + 1) * 4096,
                 !.c.currentCodeReadCount = 0]
\* the head of the outer loop after the second parseHuffmanTree
inflateDataCopyTree(m, a, b) ==
  IF b.s.halt # "run"
  THEN [m EXCEPT !.s = b.s, !.c.huffmanTreeSymbol = a.tree,
                 !.c.huffmanTreeCopy = b.tree]
  ELSE inflateDataMaxCount(m, a, b, needBits(b.s, 4))
\* the head of the outer loop after the first parseHuffmanTree
inflateDataSymbolTree(m, a) ==
  IF a.s.halt # "run"
  THEN [m EXCEPT !.s = a.s, !.c.huffmanTreeSymbol = a.tree]
  ELSE inflateDataCopyTree(m, a, parseHuffmanTree(m.d.tree, a.s))
\* (mutant) the head of the outer loop preceded by the 8-bit field
BlockAfterField(n) ==
  IF n.s.halt # "run" THEN n
  ELSE inflateDataSymbolTree([n EXCEPT !.c.blocks = @ + 1],
                             parseHuffmanTree(n.d.tree, n.s))
inflateDataBlock_ReadsField(m) ==
  IF m.c.tempOutputPosition >= m.c.outputBufferSize
  THEN [m EXCEPT !.c.pc = "return"]
  ELSE BlockAfterField(inflateDataEnter(m))
\* the head of the outer loop: both trees and MaxCount, or the return
inflateDataBlock(m) ==
  IF m.c.tempOutputPosition >= m.c.outputBufferSize
  THEN [m EXCEPT !.c.pc = "return"]
  ELSE inflateDataSymbolTree([m EXCEPT !.c.blocks = @ + 1],
                             parseHuffmanTree(m.d.tree, m.s))

\* the extra bits or-ed into a write size or offset
WithExtraBits(s, base, n) ==
  LET s1 == needBits(s, n)
  IN  [s |-> dropBits(s1, n),
       value |-> ToNat(BitOr(FromNat(base), readBits(s1, n)))]

\* the write size of a copy code (uint16 arithmetic), -1 for an invalid code
WriteSizeBase(tempCode) ==
  LET codeDivision4 == tempCode \div 4 IN
    IF codeDivision4 = 0 THEN tempCode
    ELSE IF codeDivision4 < 7
         THEN ((2 ^ (codeDivision4 - 1)) * (4 + (tempCode % 4))) % 65536
    ELSE IF tempCode = 28 THEN 255
    ELSE -1

\* the write offset of a copy code: the product is computed in uint16, the
\* type of tempCode, and only then widened
WriteOffsetBase(tempCode) ==
  LET codeDivision2 == tempCode \div 2 IN
    IF codeDivision2 = 0 THEN tempCode
    ELSE IF codeDivision2 < 17
         THEN ((2 ^ (codeDivision2 - 1)) * (2 + (tempCode % 2))) % 65536
    ELSE -1

\* the additional bits of a code whose half or quarter is above 1
ExtraBitsIf(more, s, base, n) ==
  IF more THEN WithExtraBits(s, base, n) ELSE [s |-> s, value |-> base]

\* a copy code after its write offset: the copy loop starts
inflateDataCopyStart(m, writeSize, off) ==
  IF off.s.halt # "run" THEN [m EXCEPT !.s = off.s]
  ELSE [m EXCEPT !.s = off.s, !.c.pc = "copy",
                 !.c.writeSize = writeSize,
                 !.c.writeOffset = off.value + 1,
                 !.c.alreadyWritten = 0]
\* a copy code after the readCode of its distance
inflateDataDistance(m, writeSize, o) ==
  IF o.s.halt # "run" THEN [m EXCEPT !.s = o.s]
  ELSE IF WriteOffsetBase(o.code) = -1 THEN [m EXCEPT !.s = Fatal(o.s)]
  ELSE inflateDataCopyStart([m EXCEPT !.c.distanceCode = o.code,
                                      !.c.distanceBase = WriteOffsetBase(o.code)],
         writeSize,
         ExtraBitsIf(o.code \div 2 > 1, o.s, WriteOffsetBase(o.code),
                     (o.code \div 2) - 1))
\* a copy code after its write size
inflateDataOffset(m, sz) ==
  IF sz.s.halt # "run" THEN [m EXCEPT !.s = sz.s]
  ELSE inflateDataDistance(m, sz.value + m.c.writeSizeConstantAddition,
                           readCode(m.c.huffmanTreeCopy, sz.s))
\* a copy code, tempCode the code less 0x100
inflateDataSize(m, s, tempCode) ==
  IF WriteSizeBase(tempCode) = -1 THEN [m EXCEPT !.s = Fatal(s)]
  ELSE inflateDataOffset(m,
         ExtraBitsIf(tempCode \div 4 > 1 /\ tempCode # 28, s,
                     WriteSizeBase(tempCode), (tempCode \div 4) - 1))
\* a pass of the inner loop after its readCode
inflateDataSymbol(m, r) ==
  IF r.s.halt # "run" THEN [m EXCEPT !.s = r.s]
  ELSE IF r.code < 256
  THEN IF m.c.tempOutputPosition >= Len(m.c.outputBuffer)
       THEN [m EXCEPT !.s = Panic(r.s)]
       ELSE [m EXCEPT !.s = r.s,
                      !.c.outputBuffer[m.c.tempOutputPosition + 1] = r.code % 256,
                      !.c.tempOutputPosition = @ + 1]
  ELSE inflateDataSize(m, r.s, r.code - 256)
\* one pass of the inner loop up to the copy loop: a literal is written, or
\* the write size and offset of a copy are decoded
inflateDataCode(m) ==
  IF ~(m.c.currentCodeReadCount < m.c.maxCount
         /\ m.c.tempOutputPosition < m.c.outputBufferSize)
  THEN [m EXCEPT !.c.pc = "block"]
  ELSE inflateDataSymbol([m EXCEPT !.c.currentCodeReadCount = @ + 1],
                         readCode(m.c.huffmanTreeSymbol, m.s))

\* the copy loop without the test of the output bound
CopyContinues_Unbounded(c) == c.alreadyWritten < c.writeSize

\* whether the copy loop runs once more
CopyContinues(c) ==
  c.alreadyWritten < c.writeSize /\ c.tempOutputPosition < c.outputBufferSize

\* one pass of the copy loop.  tempOutputPosition - writeOffset is a uint32:
\* below 0 it wraps to at least 2^32 - 2^17, beyond any buffer of the model,
\* and the bounds check panics
inflateDataCopy(m) ==
  IF ~CopyContinues(m.c) THEN [m EXCEPT !.c.pc = "code"]
  ELSE LET from == m.c.tempOutputPosition - m.c.writeOffset IN
       IF from < 0 \/ from >= Len(m.c.outputBuffer)
            \/ m.c.tempOutputPosition >= Len(m.c.outputBuffer)
       THEN [m EXCEPT !.s = Panic(m.s)]
       ELSE [m EXCEPT
               !.c.outputBuffer[m.c.tempOutputPosition + 1] =
                  m.c.outputBuffer[from + 1],
               !.c.tempOutputPosition = @ + 1,
               !.c.alreadyWritten = @ + 1]

\* whether the call is over: it returned, or the process ended
Ended(m) == m.c.pc = "return" \/ m.s.halt # "run"

\* the next stretch of the call
inflateStep(m) ==
  CASE m.c.pc = "enter" -> inflateBufferEnter(m)
    [] m.c.pc = "data" -> inflateDataEnter(m)
    [] m.c.pc = "block" -> inflateDataBlock(m)
    [] m.c.pc = "code" -> inflateDataCode(m)
    [] m.c.pc = "copy" -> inflateDataCopy(m)

\* inflateBuffer from call to return, or to the end of the process; a call
\* of the model ends within 2^6 stretches, and a longer one is reported as
\* halt = "bound"
RECURSIVE inflateRunN(_, _)
inflateRunN(k, m) ==
  IF Ended(m) THEN m
  ELSE IF k = 0 THEN inflateStep(m)
  ELSE inflateRunN(k - 1, inflateRunN(k - 1, m))
inflateBound(r) == IF Ended(r) THEN r ELSE [r EXCEPT !.s.halt = "bound"]
inflateRun(m) == inflateBound(inflateRunN(6, m))
\* the inner loop of inflateData from its first pass to its last, copy loops
\* included; a block of the model ends within 2^13 stretches, and a longer one
\* is reported as halt = "bound"
InBlock(m) == m.c.pc \in {"code", "copy"} /\ m.s.halt = "run"
RECURSIVE inflateDataCodesN(_, _)
inflateDataCodesN(k, m) ==
  IF ~InBlock(m) THEN m
  ELSE IF k = 0 THEN inflateStep(m)
  ELSE inflateDataCodesN(k - 1, inflateDataCodesN(k - 1, m))
inflateCodesBound(r) == IF InBlock(r) THEN [r EXCEPT !.s.halt = "bound"] ELSE r
inflateDataCodes(m) == inflateCodesBound(inflateDataCodesN(13, m))
inflateBuffer(input, cap, custom, d) ==
  inflateRun([c |-> NewCall(input, cap, custom),
              s |-> NewState([kind |-> "words", words |-> <<>>]), d |-> d])

---------------------------------------------------------------------------
(* SpecPump: a caller reads fields of chosen widths from a stream, one     *)
(* needBits, readBits, dropBits at a time.                                 *)

\* bounds of the pump's inputs
MaxWords == 2
MaxFields == 3
WordSet ==
  { Ones32, Zero32,
    [i \in 1..WordBits |-> IF i % 3 = 1 THEN 1 ELSE 0],
    [i \in 1..WordBits |-> IF i \in {2, 3, 5, 17, 31, 32} THEN 1 ELSE 0] }
Widths == {1, 5, 16, 31, 32}

\* short streams, and streams of a block and more read from a word-aligned
\* position near the block's end (the state after that many 32-bit fields)
ShortInputs ==
  UNION { { [kind |-> "words", words |-> w] : w \in [1..n -> WordSet] }
          : n \in 1..MaxWords }
LongInputs ==
  { [kind |-> "indexed", size |-> n] : n \in {BlockSize, BlockSize + MaxFields} }
AlignedAt(data, p) == [NewState(data) EXCEPT !.InputPosition = p]

PumpInit ==
  /\ \/ \E d \in ShortInputs : stateData = NewState(d)
     \/ \E d \in LongInputs : \E p \in {0, BlockSize - 2} :
          stateData = AlignedAt(d, p)
  /\ pump = [pc |-> "need", k |-> 0, val |-> Zero32, fields |-> 0,
             start |-> stateData.InputPosition,
             consumed |-> 0, requested |-> 0, pulled |-> <<>>]
  /\ codec = Idle
  /\ call = Idle
  /\ huffmanTreeDict = EmptyTree
  /\ huffmanTreeDictInitialized = FALSE
  /\ callers = Idle
  /\ extraction = Idle

PumpNeed(k) ==
  /\ pump.pc = "need"
  /\ stateData.halt = "run"
  /\ pump.fields < MaxFields
  /\ stateData' = needBits(stateData, k)
  /\ pump' = [pump EXCEPT
       !.pc = "read", !.k = k, !.fields = @ + 1, !.requested = @ + k,
       !.pulled = IF stateData'.Bits > stateData.Bits
                  THEN Append(@, stateData'.InputPosition - 1) ELSE @]
  /\ UNCHANGED notPump

PumpRead ==
  /\ pump.pc = "read"
  /\ stateData.halt = "run"
  /\ pump' = [pump EXCEPT !.pc = "drop", !.val = readBits(stateData, pump.k)]
  /\ UNCHANGED <<stateData, notPump>>

PumpDrop ==
  /\ pump.pc = "drop"
  /\ stateData' = dropBits(stateData, pump.k)
  /\ pump' = [pump EXCEPT !.pc = "need", !.consumed = @ + pump.k]
  /\ UNCHANGED notPump

PumpNext ==
  \/ \E k \in Widths : PumpNeed(k)
  \/ PumpRead
  \/ PumpDrop

SpecPump == PumpInit /\ [][PumpNext]_vars


---------------------------------------------------------------------------
(* The bit pump's claims                                                   *)

\* bit j (from 1) of W[0] W[1] ..., each word most-significant bit first
StreamBit(data, j) == WordAt(data, (j - 1) \div WordBits)[((j - 1) % WordBits) + 1]
\* the k bits after the first pos bits, as the low bits of a uint32
ExpectedField(data, pos, k) ==
  Vec([i \in 1..WordBits |->
         IF i <= WordBits - k THEN 0 ELSE StreamBit(data, pos + i - (WordBits - k))])

\* C6: on a stream of N words shorter than a block, while the widths asked
\* for sum to at most 32*N the pump never aborts, and every value read is the
\* next k bits of the concatenated words, most-significant bit first.
C6_RoundTrip ==
  (stateData.InputData.kind = "words"
     /\ pump.requested <= WordBits * stateData.InputSize)
  => /\ stateData.halt = "run"
     /\ pump.pc = "drop" =>
          pump.val = ExpectedField(stateData.InputData, pump.consumed, pump.k)

\* a field that starts inside one word and ends in the next has been read
C6_Witness ==
  /\ stateData.InputData.kind = "words"
  /\ pump.pc = "drop"
  /\ pump.consumed % WordBits # 0
  /\ (pump.consumed % WordBits) + pump.k > WordBits
  /\ pump.val # Zero32
  /\ pump.val = ExpectedField(stateData.InputData, pump.consumed, pump.k)

\* the index of the n-th word (from 0) delivered, as the claim has it: the
\* whole first block, then W[B] skipped
ClaimedIndex(n) == IF n < BlockSize THEN n ELSE n + 1
\* and as the pump delivers it: the block's last word W[B-1] is the one skipped
DeliveredIndex(n) == IF n < BlockSize - 1 THEN n ELSE n + 1

\* C7 as stated: the pump delivers W[0..B-1], skips W[B], resumes with W[B+1].
C7_SkipsWordB ==
  stateData.InputData.kind = "indexed"
  => \A i \in 1..Len(pump.pulled) :
       pump.pulled[i] = ClaimedIndex(pump.start + i - 1)

\* C7 amended: the pump delivers W[0..B-2] in order, the word it skips is the
\* B-th word of the stream (W[B-1], the last word of the block), and reading
\* resumes with W[B].
C7_SkipsLastWordOfBlock ==
  stateData.InputData.kind = "indexed"
  => \A i \in 1..Len(pump.pulled) :
       pump.pulled[i] = DeliveredIndex(pump.start + i - 1)

\* the pump has read across the block boundary
C7_Witness ==
  /\ stateData.InputData.kind = "indexed"
  /\ Len(pump.pulled) = 3
  /\ pump.pulled[1] = BlockSize - 2
  /\ pump.pulled[2] = BlockSize
  /\ pump.pulled[3] = BlockSize + 1
  /\ stateData.halt = "run"


---------------------------------------------------------------------------
(* SpecTree: a table is built from an assignment of bit lengths to the     *)
(* symbols of a small alphabet, and a stream of canonical codes is decoded *)
(* with it, one readCode at a time.                                        *)

\* bounds of the codec's inputs
MaxSymbols == 3
MaxMessage == 2
LengthSet == {1, 2, 3, 31}

\* sum over the symbols of 2^-len <= 1, counted in units of 2^-30 (a pair of
\* 31-bit codes is one unit)
RECURSIVE SumOver(_, _)
SumOver(f, S) ==
  IF S = {} THEN 0
  ELSE LET x == CHOOSE y \in S : TRUE IN f[x] + SumOver(f, S \ {x})
KraftValid(lens) ==
  LET short == {x \in DOMAIN lens : lens[x] <= 30}
      long == {x \in DOMAIN lens : lens[x] = 31}
  IN  SumOver([x \in short |-> 2 ^ (30 - lens[x])], short)
        + (Cardinality(long) + 1) \div 2 <= 2 ^ 30

Reverse(q) == [i \in 1..Len(q) |-> q[Len(q) + 1 - i]]

\* the symbols of bit length L in the order of their list: last registered first
ChainOf(lens, order, L) ==
  LET IsL(x) == lens[x] = L IN Reverse(SelectSeq(order, IsL))
\* the running code when bit length L is reached
RECURSIVE FirstCode(_, _)
FirstCode(lens, L) ==
  IF L = 0 THEN 0
  ELSE 2 * (FirstCode(lens, L - 1)
            - Cardinality({x \in DOMAIN lens : lens[x] = L - 1})) + 1
\* the canonical code of symbol x: codes of a length descend along its list
CodeOf(lens, order, x) ==
  LET chain == ChainOf(lens, order, lens[x])
      rank == CHOOSE i \in 1..Len(chain) : chain[i] = x
  IN  FirstCode(lens, lens[x]) - (rank - 1)
\* v as n bits, most significant first
BitsOf(v, n) == [i \in 1..n |-> (v \div (2 ^ (n - i))) % 2]
RECURSIVE EncodeMessage(_, _, _)
EncodeMessage(lens, order, msg) ==
  IF msg = <<>> THEN <<>>
  ELSE BitsOf(CodeOf(lens, order, Head(msg)), lens[Head(msg)])
         \o EncodeMessage(lens, order, Tail(msg))
\* bits packed into whole words, filled with pad, and nwords words in all
PackWords(bits, pad, nwords) ==
  [kind |-> "words",
   words |-> [j \in 1..nwords |->
                [i \in 1..WordBits |->
                   IF (j - 1) * WordBits + i <= Len(bits)
                   THEN bits[(j - 1) * WordBits + i] ELSE pad]]]
\* the stream of a message: its codes, then filler up to one word past them
\* (readCode looks 32 bits ahead)
StreamOf(bits, pad) ==
  PackWords(bits, pad, (Len(bits) + WordBits - 1) \div WordBits + 1)

\* the tables after registering the pairs of lens in the given order
RECURSIVE RegisterAll(_, _, _)
RegisterAll(lens, order, tabs) ==
  IF order = <<>> THEN tabs
  ELSE RegisterAll(lens, Tail(order),
                   fillTabsHelper(lens[Head(order)], Head(order), tabs))

Ascending(n) == [i \in 1..n |-> i - 1]
MessagesOver(n) == UNION { [1..m -> 0..(n - 1)] : m \in 1..MaxMessage }
\* bits consumed from the stream so far (no block boundary is crossed)
BitsConsumed(s) == WordBits * s.InputPosition - s.Bits

TreeInit ==
  /\ \E n \in 1..MaxSymbols : \E lens \in [0..(n - 1) -> LengthSet] :
       \E order \in {Ascending(n), Reverse(Ascending(n))} :
         \E msg \in MessagesOver(n) : \E pad \in Bit :
           /\ KraftValid(lens)
           /\ codec = [pc |-> "build", lens |-> lens, order |-> order,
                       msg |-> msg, tree |-> EmptyTree, halt |-> "run",
                       decoded |-> <<>>, used |-> <<>>, peeked |-> <<>>]
           /\ stateData = NewState(StreamOf(EncodeMessage(lens, order, msg), pad))
  /\ pump = Idle
  /\ call = Idle
  /\ huffmanTreeDict = EmptyTree
  /\ huffmanTreeDictInitialized = FALSE
  /\ callers = Idle
  /\ extraction = Idle

\* register every (length, symbol) pair, then createHuffmanTree
TreeBuild ==
  /\ codec.pc = "build"
  /\ LET built == createHuffmanTree(RegisterAll(codec.lens, codec.order, EmptyTabs))
     IN  codec' = [codec EXCEPT !.pc = "decode", !.tree = built.tree,
                                !.halt = built.halt]
  /\ UNCHANGED <<stateData, notCodec>>

\* decode the next symbol of the message; peeked keeps the 32 bits readCode
\* looked at, used the bits it consumed
TreeDecode ==
  /\ codec.pc = "decode"
  /\ codec.halt = "run"
  /\ stateData.halt = "run"
  /\ Len(codec.decoded) < Len(codec.msg)
  /\ LET r == readCode(codec.tree, stateData) IN
       /\ stateData' = r.s
       /\ codec' = IF r.s.halt # "run" THEN codec
                   ELSE [codec EXCEPT
                           !.decoded = Append(@, r.code),
                           !.used = Append(@, BitsConsumed(r.s) - BitsConsumed(stateData)),
                           !.peeked = Append(@, readBits(needBits(stateData, 32), 32))]
  /\ UNCHANGED notCodec

TreeNext == TreeBuild \/ TreeDecode

SpecTree == TreeInit /\ [][TreeNext]_vars

\* C8: for every valid assignment of bit lengths, complete or not, also one
\* with a single length, decoding the concatenated canonical codes never
\* aborts and yields the original symbols, each consuming its bit length.
C8_RoundTrip ==
  /\ codec.pc # "idle" => codec.halt = "run" /\ stateData.halt = "run"
  /\ codec.pc = "decode" =>
       \A i \in 1..Len(codec.decoded) :
         /\ codec.decoded[i] = codec.msg[i]
         /\ codec.used[i] = codec.lens[codec.msg[i]]

\* what the code ensures: the same, for the tables whose first class does not
\* start at code 0 (readCode takes CompressedCodes[0] = 0 for an empty tree)
C8_RoundTripUnlessFirstClassZero ==
  (codec.pc = "decode"
     /\ Elem(codec.tree.CompressedCodes, 0, Zero32) # Zero32)
  => /\ codec.halt = "run" /\ stateData.halt = "run"
     /\ \A i \in 1..Len(codec.decoded) :
          /\ codec.decoded[i] = codec.msg[i]
          /\ codec.used[i] = codec.lens[codec.msg[i]]


\* the class indices: the indices of a tree's tables, whose entries past the
\* classes built are zero
Classes(tree) == 0..(MAX_CODE_BITS_LENGTH - 1)
\* the number in the top n bits of b less the number in the top n bits of m
TopDiff(b, m, n) ==
  IF n <= 16
  THEN (Half(b, 0) \div (2 ^ (16 - n))) - (Half(m, 0) \div (2 ^ (16 - n)))
  ELSE (Half(b, 0) - Half(m, 0)) * (2 ^ (n - 16))
         + ((Half(b, 16) \div (2 ^ (32 - n))) - (Half(m, 16) \div (2 ^ (32 - n))))
\* what a decode that selects class c consumes and yields
DecodesWith(tree, b, c, used, symbol) ==
  /\ used = Elem(tree.BitsLength, c, 0)
  /\ symbol = Elem(tree.SymbolValues,
                   Elem(tree.SymbolValueOffset, c, 0)
                     - TopDiff(b, Elem(tree.CompressedCodes, c, Zero32),
                               Elem(tree.BitsLength, c, 0)),
                   0)
\* the decodes of the message so far
Decodes == IF codec.pc = "decode" THEN 1..Len(codec.decoded) ELSE {}

\* C12 as stated: a decode with peeked value b selects the smallest class c
\* with b < MinCode[c], and uses BitLen[c] and SymOff[c].
C12_SmallestClassAbove ==
  \A i \in Decodes :
    \A c \in Classes(codec.tree) :
      (/\ Less32(codec.peeked[i], Elem(codec.tree.CompressedCodes, c, Zero32))
       /\ \A e \in 0..(c - 1) :
            ~Less32(codec.peeked[i], Elem(codec.tree.CompressedCodes, e, Zero32)))
      => DecodesWith(codec.tree, codec.peeked[i], c, codec.used[i], codec.decoded[i])

\* C12 amended: the decode selects the smallest class c with b >= MinCode[c]
\* (the classes' minimal codes descend), and uses BitLen[c] and SymOff[c].
C12_SmallestClassNotAbove ==
  \A i \in Decodes :
    \A c \in Classes(codec.tree) :
      (/\ ~Less32(codec.peeked[i], Elem(codec.tree.CompressedCodes, c, Zero32))
       /\ \A e \in 0..(c - 1) :
            Less32(codec.peeked[i], Elem(codec.tree.CompressedCodes, e, Zero32)))
      => DecodesWith(codec.tree, codec.peeked[i], c, codec.used[i], codec.decoded[i])
\* a decode that selects the second of two classes
C12_Witness ==
  /\ codec.pc = "decode" /\ Len(codec.decoded) >= 1
  /\ Len(codec.tree.CompressedCodes) = 2
  /\ Less32(codec.peeked[1], codec.tree.CompressedCodes[1])
  /\ ~Less32(codec.peeked[1], codec.tree.CompressedCodes[2])
  /\ codec.used[1] = codec.tree.BitsLength[2]
  /\ codec.decoded[1] = codec.msg[1]


---------------------------------------------------------------------------
(* SpecInflate: one inflateBuffer call on a compressed payload, a stretch  *)
(* of the code at a time.  The payloads are streams with a literal/length  *)
(* tree and a distance tree, followed by the codes of a few operations.    *)

\* bounds of the payloads
MaxOps == 2
DeclaredSizes == {1, 2, 4}
Caps == {0, 1, 3}
CustomSizes == {0, 2}

\* A code table as the decoder registers it: bits[p] is the bit length of
\* symbols[p], in the order of registration.
\* the running code when bit length L is reached
RECURSIVE TableFirstCode(_, _)
TableFirstCode(table, L) ==
  IF L = 0 THEN 0
  ELSE 2 * (TableFirstCode(table, L - 1)
            - Cardinality({p \in DOMAIN table.bits : table.bits[p] = L - 1})) + 1
\* the canonical code of symbol x: the codes of a bit length descend from the
\* symbol registered last
TableCode(table, x) ==
  LET p == CHOOSE q \in DOMAIN table.symbols : table.symbols[q] = x
      L == table.bits[p]
      later == {q \in DOMAIN table.bits : q > p /\ table.bits[q] = L}
  IN  SubSeq(BitsOf(TableFirstCode(table, L) - Cardinality(later), L), 1, L)
\* the bit length of symbol x, 0 for a symbol without a code
TableLen(table, x) ==
  IF \E p \in DOMAIN table.symbols : table.symbols[p] = x
  THEN table.bits[CHOOSE p \in DOMAIN table.symbols : table.symbols[p] = x]
  ELSE 0

\* the dictionary tree's table
DictTable == [bits |-> DictBits, symbols |-> DictSymbols]

\* a tree description: the alphabet size n, then runs of up to 8 symbols of
\* one bit length from symbol n-1 down, each run one dictionary code
RECURSIVE TreeRuns(_, _)
TreeRuns(table, r) ==
  IF r < 0 THEN <<>>
  ELSE LET len == TableLen(table, r)
           Same(k) == \A j \in 0..(k - 1) : r - j >= 0 /\ TableLen(table, r - j) = len
           count == CHOOSE k \in 1..8 : Same(k) /\ (k = 8 \/ ~Same(k + 1))
       IN  TableCode(DictTable, (count - 1) * 32 + len) \o TreeRuns(table, r - count)
TreeDescription(table, n) == SubSeq(BitsOf(n, 16), 1, 16) \o TreeRuns(table, n - 1)

\* the literal/length tree: literals 65 and 66, copy codes 0, 1 and 8 (the
\* parser registers an alphabet from its last symbol down)
SymTable == [bits |-> <<3, 3, 2, 2, 2>>, symbols |-> <<264, 257, 256, 66, 65>>]
\* the distance tree: codes 0, 2 and 4
CpyTable == [bits |-> <<2, 2, 1>>, symbols |-> <<4, 2, 0>>]
SymTreeBits == TreeDescription(SymTable, 265)
CpyTreeBits == TreeDescription(CpyTable, 5)

\* an operation: a literal, or a copy code with its extra bits, a distance
\* code and its extra bit
Literal(b) == [sym |-> b]
Copy(code, sizeExtra, dcode, offExtra) ==
  [sym |-> 256 + code, sizeExtra |-> sizeExtra, dcode |-> dcode, offExtra |-> offExtra]
Operations ==
  { Literal(65), Literal(66),
    Copy(0, <<>>, 0, <<>>),       \* size 0 + S, offset 1
    Copy(1, <<>>, 2, <<>>),       \* size 1 + S, offset 3
    Copy(8, <<1>>, 4, <<1>>) }    \* size 9 + S, offset 6
OpBits(op) ==
  IF op.sym < 256 THEN TableCode(SymTable, op.sym)
  ELSE TableCode(SymTable, op.sym) \o op.sizeExtra
         \o TableCode(CpyTable, op.dcode) \o op.offExtra
RECURSIVE OpsBits(_)
OpsBits(ops) == IF ops = <<>> THEN <<>> ELSE OpBits(Head(ops)) \o OpsBits(Tail(ops))

\* the bits of a payload: a word that is skipped, the declared size, the
\* 8-bit field holding K, both trees, MaxCount's 4 bits, the operations
PayloadBits(declared, k, ops) ==
  FromNat(4660) \o FromNat(declared) \o <<0, 0, 0, 0>> \o SubSeq(BitsOf(k, 4), 1, 4)
    \o SymTreeBits \o CpyTreeBits \o <<0, 0, 0, 0>> \o OpsBits(ops)

\* the bytes of a stream of bits: whole words and one more (readCode looks 32
\* bits ahead), filled with zeros, the least significant byte of a word first
BytesOfBits(bits) ==
  LET nwords == (Len(bits) + WordBits - 1) \div WordBits + 1
      BitAt(j) == IF j <= Len(bits) THEN bits[j] ELSE 0
      ByteAt(i) ==
        LET base == WordBits * ((i - 1) \div 4) + 8 * (3 - ((i - 1) % 4))
        IN  ((128 * BitAt(base + 1) + 64 * BitAt(base + 2))
               + (32 * BitAt(base + 3) + 16 * BitAt(base + 4)))
            + ((8 * BitAt(base + 5) + 4 * BitAt(base + 6))
               + (2 * BitAt(base + 7) + BitAt(base + 8)))
  IN  SubSeq([i \in 1..(4 * nwords) |-> ByteAt(i)], 1, 4 * nwords)
Payload(declared, k, ops) == BytesOfBits(PayloadBits(declared, k, ops))

Programs == UNION { [1..n -> Operations] : n \in 0..MaxOps }

\* the call as the model steps it
M == [c |-> call, s |-> stateData,
      d |-> [tree |-> huffmanTreeDict, initialized |-> huffmanTreeDictInitialized]]
Becomes(m) ==
  /\ call' = m.c
  /\ stateData' = m.s
  /\ huffmanTreeDict' = m.d.tree
  /\ huffmanTreeDictInitialized' = m.d.initialized

InflateInit ==
  /\ \E declared \in DeclaredSizes : \E k \in {0, 3} : \E ops \in Programs :
       \E cap \in Caps : \E custom \in CustomSizes :
         call = NewCall(Payload(declared, k, ops), cap, custom)
  /\ stateData = NewState([kind |-> "words", words |-> <<>>])
  /\ huffmanTreeDict = EmptyTree
  /\ huffmanTreeDictInitialized = FALSE
  /\ callers = Idle
  /\ extraction = Idle
  /\ pump = Idle
  /\ codec = Idle

Running == call.pc # "return" /\ stateData.halt = "run"

InflateBufferEnter ==
  /\ Running /\ call.pc = "enter"
  /\ Becomes(inflateBufferEnter(M))
  /\ UNCHANGED notInflate
InflateDataEnter ==
  /\ Running /\ call.pc = "data"
  /\ Becomes(inflateDataEnter(M))
  /\ UNCHANGED notInflate
InflateDataBlock ==
  /\ Running /\ call.pc = "block"
  /\ Becomes(inflateDataBlock(M))
  /\ UNCHANGED notInflate
InflateDataCode ==
  /\ Running /\ call.pc = "code"
  /\ Becomes(inflateDataCode(M))
  /\ UNCHANGED notInflate
InflateDataCopy ==
  /\ Running /\ call.pc = "copy"
  /\ Becomes(inflateDataCopy(M))
  /\ UNCHANGED notInflate

InflateNext ==
  \/ InflateBufferEnter
  \/ InflateDataEnter
  \/ InflateDataBlock
  \/ InflateDataCode
  \/ InflateDataCopy

SpecInflate == InflateInit /\ [][InflateNext]_vars

---------------------------------------------------------------------------
(* SpecDistances: inflateBuffer on payloads whose distance tree holds the  *)
(* copy codes 32 and 33, the ones with 15 additional bits.                 *)

\* the distance tree: codes 0, 2, 32 and 33
WideCpyTable == [bits |-> <<3, 3, 2, 1>>, symbols |-> <<33, 32, 2, 0>>]
\* an operation whose distance code is taken from the table cpy
OpBitsIn(cpy, op) ==
  IF op.sym < 256 THEN TableCode(SymTable, op.sym)
  ELSE TableCode(SymTable, op.sym) \o op.sizeExtra
         \o TableCode(cpy, op.dcode) \o op.offExtra
RECURSIVE OpsBitsIn(_, _)
OpsBitsIn(cpy, ops) ==
  IF ops = <<>> THEN <<>> ELSE OpBitsIn(cpy, Head(ops)) \o OpsBitsIn(cpy, Tail(ops))
\* the bits of a payload with a distance tree of n symbols
WidePayloadBits(declared, k, cpy, n, ops) ==
  FromNat(4660) \o FromNat(declared) \o <<0, 0, 0, 0>> \o SubSeq(BitsOf(k, 4), 1, 4)
    \o SymTreeBits \o TreeDescription(cpy, n) \o <<0, 0, 0, 0>> \o OpsBitsIn(cpy, ops)
\* the additional bits of a distance: 0, 1, and every bit set
ExtraBits(n) == { BitsOf(0, n), BitsOf(1, n), BitsOf(2 ^ n - 1, n) }
\* copies of S bytes at every distance code of the table
WideCopies ==
  { Copy(0, <<>>, 0, <<>>), Copy(0, <<>>, 2, <<>>) }
    \cup { Copy(0, <<>>, d, SubSeq(e, 1, 15)) : d \in {32, 33}, e \in ExtraBits(15) }

DistancesInit ==
  /\ \E k \in {0, 3} : \E declared \in {4, 6} : \E copy \in WideCopies :
       call = NewCall(BytesOfBits(WidePayloadBits(declared, k, WideCpyTable, 34,
                                     <<Literal(65), Literal(66), copy>>)), 0, 0)
  /\ stateData = NewState([kind |-> "words", words |-> <<>>])
  /\ huffmanTreeDict = EmptyTree
  /\ huffmanTreeDictInitialized = FALSE
  /\ pump = Idle
  /\ codec = Idle
  /\ callers = Idle
  /\ extraction = Idle

SpecDistances == DistancesInit /\ [][InflateNext]_vars

---------------------------------------------------------------------------
(* SpecBlocks: inflateBuffer on a payload of two blocks.  The outer loop   *)
(* of inflateData comes round only when a block has read MaxCount codes,   *)
(* and the least MaxCount is 1 << 12.                                      *)

BlockCodes == 4096
\* the code of one symbol, n times over
Repeated(code, n) == [i \in 1..(n * Len(code)) |-> code[((i - 1) % Len(code)) + 1]]
\* the bits of a payload of two blocks as inflateData reads them: the
\* 8-bit field, the first block's trees, MaxCount and BlockCodes literals
\* 65, then the second block's trees, MaxCount and operations
TwoBlockBits(declared, k, ops) ==
  PayloadBits(declared, k, <<>>) \o Repeated(TableCode(SymTable, 65), BlockCodes)
    \o SymTreeBits \o CpyTreeBits \o <<0, 0, 0, 0>> \o OpsBits(ops)
\* second blocks: literals, and copies of base length 0 and 1
SecondBlocks ==
  { <<Literal(66), Copy(0, <<>>, 0, <<>>)>>,
    <<Copy(1, <<>>, 2, <<>>)>>,
    <<Literal(65), Literal(66)>>,
    <<Copy(0, <<>>, 0, <<>>), Literal(66)>> }
\* the sizes declared: what the first block writes and 1 to 5 bytes more
ExtraSizes == {1, 2, 5}

BlocksInit ==
  /\ \E k \in 0..3 : \E ops \in SecondBlocks : \E extra \in ExtraSizes :
       call = NewCall(BytesOfBits(TwoBlockBits(BlockCodes + extra, k, ops)), 0, 0)
  /\ stateData = NewState([kind |-> "words", words |-> <<>>])
  /\ huffmanTreeDict = EmptyTree
  /\ huffmanTreeDictInitialized = FALSE
  /\ pump = Idle
  /\ codec = Idle
  /\ callers = Idle
  /\ extraction = Idle

\* the whole inner loop of a block
InflateDataCodes ==
  /\ Running /\ call.pc = "code"
  /\ Becomes(inflateDataCodes(M))
  /\ UNCHANGED notInflate

BlocksNext ==
  \/ InflateBufferEnter
  \/ InflateDataEnter
  \/ InflateDataBlock
  \/ InflateDataCodes

SpecBlocks == BlocksInit /\ [][BlocksNext]_vars


---------------------------------------------------------------------------
(* The inflate engine's claims                                             *)

\* U: the 32-bit value held in bits 32..63 of the stream, read off the bytes
DeclaredOf(input) ==
  (input[5] + 256 * input[6]) + (65536 * input[7] + 16777216 * input[8])
\* U' = min(U, Cap) when Cap # 0, U when Cap = 0
ReportedOf(c) ==
  LET U == DeclaredOf(c.inputBuffer)
  IN  IF c.cap # 0 /\ c.cap < U THEN c.cap ELSE U
\* the call is past the size logic of inflateBuffer
Sized == call.pc \in {"data", "block", "code", "copy", "return"} /\ call.err = ""

\* C4: called with CustomSize = 0, inflate reports U' = min(U, Cap) when
\* Cap # 0 and U' = U when Cap = 0, and its buffer has exactly U' bytes.
C4_ReportsCappedSize ==
  (Sized /\ call.customOutputBufferSize = 0)
  => /\ call.ioOutputBufferSize = ReportedOf(call)
     /\ Len(call.outputBuffer) = ReportedOf(call)

\* a call that declared more than its cap has returned a buffer of cap bytes
C4_Witness ==
  /\ call.pc = "return" /\ call.err = "" /\ stateData.halt = "run"
  /\ call.customOutputBufferSize = 0
  /\ call.cap # 0 /\ DeclaredOf(call.inputBuffer) > call.cap
  /\ call.ioOutputBufferSize = call.cap
  /\ Len(call.outputBuffer) = call.cap
  /\ call.tempOutputPosition = call.cap

\* C5: with CustomSize > 0 the decode loop still stops as soon as
\* out_pos >= U', no byte at an index >= U' is produced by decoding, and U' is
\* the size reported.
C5_DecodeStopsAtReported ==
  (Sized /\ call.customOutputBufferSize > 0)
  => /\ call.ioOutputBufferSize = ReportedOf(call)
     /\ call.tempOutputPosition <= ReportedOf(call)

\* C10: whenever a back-reference copy reads out[out_pos - dist],
\* 1 <= dist <= out_pos holds (a larger distance is rejected before the copy).
C10_DistanceWithinOutput ==
  (call.pc = "copy" /\ stateData.halt = "run" /\ CopyContinues(call))
  => /\ 1 <= call.writeOffset
     /\ call.writeOffset <= call.tempOutputPosition


---------------------------------------------------------------------------
(* SpecDict: inflateBuffer calls running side by side.  Nothing in         *)
(* inflateBuffer orders the accesses of two calls to huffmanTreeDict and   *)
(* huffmanTreeDictInitialized, so the calls interleave at each access of   *)
(* the two globals.                                                        *)

NumCallers == 3
Callers == 1..NumCallers
DictInputs ==
  { Payload(1, 0, <<Literal(65)>>), Payload(2, 0, <<Literal(65), Literal(66)>>) }

\* a call that waits to enter inflateBuffer
NewCaller(input) ==
  [pc |-> "check", inputBuffer |-> input, outputBuffer |-> <<>>, err |-> "",
   halt |-> "run"]
\* a call between its first read of the tree and its return
Decoding(p) == callers.proc[p].pc = "decode"

DictInit ==
  /\ \E inputs \in [Callers -> DictInputs] :
       callers = [proc |-> [p \in Callers |-> NewCaller(inputs[p])],
                  initRuns |-> 0, lateWrite |-> FALSE]
  /\ huffmanTreeDict = EmptyTree
  /\ huffmanTreeDictInitialized = FALSE
  /\ stateData = NewState([kind |-> "words", words |-> <<>>])
  /\ pump = Idle
  /\ codec = Idle
  /\ call = Idle
  /\ extraction = Idle

\* "if !huffmanTreeDictInitialized": the flag is read
DictCheck(p) ==
  /\ callers.proc[p].pc = "check"
  /\ callers' = [callers EXCEPT
       !.proc[p].pc = IF huffmanTreeDictInitialized THEN "start" ELSE "init"]
  /\ UNCHANGED <<dictVars, notDict>>
\* initializeHuffmanTreeDict(): the tree is written; initRuns counts the runs
\* and lateWrite records a run that writes while another call is decoding
DictInitialize(p) ==
  /\ callers.proc[p].pc = "init"
  /\ huffmanTreeDict' = initializeHuffmanTreeDict
  /\ callers' = [callers EXCEPT
       !.proc[p].pc = "flag",
       !.initRuns = @ + 1,
       !.lateWrite = @ \/ \E q \in Callers : Decoding(q)]
  /\ UNCHANGED <<huffmanTreeDictInitialized, notDict>>
\* "huffmanTreeDictInitialized = true"
DictSetFlag(p) ==
  /\ callers.proc[p].pc = "flag"
  /\ huffmanTreeDictInitialized' = TRUE
  /\ callers' = [callers EXCEPT !.proc[p].pc = "start"]
  /\ UNCHANGED <<huffmanTreeDict, notDict>>
\* "if huffmanTreeDict.CompressedCodes[0] == 0": the call's first read of the tree
DictStart(p) ==
  /\ callers.proc[p].pc = "start"
  /\ callers' = [callers EXCEPT
       !.proc[p] = IF Elem(huffmanTreeDict.CompressedCodes, 0, Zero32) = Zero32
                   THEN [@ EXCEPT !.pc = "done", !.err = "huffman tree empty"]
                   ELSE [@ EXCEPT !.pc = "decode"]]
  /\ UNCHANGED <<dictVars, notDict>>
\* what the caller keeps of a call that ended
Returned(caller, r) ==
  [caller EXCEPT !.pc = "done", !.outputBuffer = r.c.outputBuffer,
                 !.err = r.c.err, !.halt = r.s.halt]
\* the rest of inflateBuffer, which reads the tree in every readCode of
\* parseHuffmanTree
DictDecode(p) ==
  /\ callers.proc[p].pc = "decode"
  /\ callers' = [callers EXCEPT
       !.proc[p] = Returned(@,
          inflateRun(inflateBufferWith(
            [c |-> NewCall(callers.proc[p].inputBuffer, 0, 0),
             s |-> NewState([kind |-> "words", words |-> <<>>]),
             d |-> [tree |-> huffmanTreeDict, initialized |-> TRUE]],
            [tree |-> huffmanTreeDict, initialized |-> TRUE])))]
  /\ UNCHANGED <<dictVars, notDict>>

DictNext ==
  \E p \in Callers :
    \/ DictCheck(p)
    \/ DictInitialize(p)
    \/ DictSetFlag(p)
    \/ DictStart(p)
    \/ DictDecode(p)

SpecDict == DictInit /\ [][DictNext]_vars

\* C9: in every interleaving of calls that start while the tree is
\* uninitialised, the initializer runs at most once, and no write to the
\* dictionary tree occurs once a call has started decoding with it.
C9_BuiltOnceThenReadOnly == callers.initRuns <= 1 /\ ~callers.lateWrite


---------------------------------------------------------------------------
(* extractMFTData                                                          *)

\* (mutant) the scan that keeps the last record that matches
RECURSIVE FindIndex_Last(_, _, _, _)
FindIndex_Last(records, number, isFileID, i) ==
  IF i > Len(records) THEN -1
  ELSE IF FindIndex_Last(records, number, isFileID, i + 1) # -1
       THEN FindIndex_Last(records, number, isFileID, i + 1)
  ELSE IF isFileID /\ records[i].FileID = number THEN records[i].BaseID
  ELSE IF ~isFileID /\ records[i].BaseID = number THEN records[i].BaseID
  ELSE -1

\* the loop over datFile.MFTIndexData from record i on: int(entry.BaseID) of
\* the record it breaks on, or -1
RECURSIVE FindIndex(_, _, _, _)
FindIndex(records, number, isFileID, i) ==
  IF i > Len(records) THEN -1
  ELSE IF isFileID /\ records[i].FileID = number THEN records[i].BaseID
  ELSE IF ~isFileID /\ records[i].BaseID = number THEN records[i].BaseID
  ELSE FindIndex(records, number, isFileID, i + 1)

\* file.Seek followed by file.Read(buffer) on a regular file of the given
\* bytes: an empty buffer reads nothing, a position at or past the end is
\* io.EOF, and otherwise the bytes that are there are read without an error
FileRead(file, offset, size) ==
  IF size = 0 THEN [n |-> 0, err |-> ""]
  ELSE IF offset >= Len(file) THEN [n |-> 0, err |-> "EOF"]
  ELSE IF offset + size > Len(file) THEN [n |-> Len(file) - offset, err |-> ""]
  ELSE [n |-> size, err |-> ""]
\* make([]byte, size) after the read of n bytes at offset
Filled(file, offset, size, n) ==
  SubSeq([i \in 1..size |-> IF i <= n THEN file[offset + i] ELSE 0], 1, size)

\* the locals of a call of extractMFTData before it starts
NewExtraction(datFile, file, number, isFileID) ==
  [pc |-> "scan", datFile |-> datFile, file |-> file,
   number |-> number, isFileID |-> isFileID,
   index |-> -1, mftEntry |-> [Offset |-> 0, Size |-> 0, CompressionFlag |-> 0],
   buffer |-> <<>>, data |-> <<>>, err |-> "", halt |-> "run"]

\* the scan of the index table, and the return when nothing matches
extractScan(x) ==
  IF FindIndex(x.datFile.MFTIndexData, x.number, x.isFileID, 1) = -1
  THEN [x EXCEPT !.pc = "return", !.err = "MFT entry not found"]
  ELSE [x EXCEPT !.pc = "entry",
                 !.index = FindIndex(x.datFile.MFTIndexData, x.number, x.isFileID, 1)]
\* "mftEntry := datFile.MFTData[index-1]", whose bounds check panics, and
\* the allocation of the buffer
extractEntry(x) ==
  IF x.index - 1 < 0 \/ x.index - 1 >= Len(x.datFile.MFTData)
  THEN [x EXCEPT !.halt = "panic"]
  ELSE [x EXCEPT !.pc = "read",
                 !.mftEntry = x.datFile.MFTData[x.index],
                 !.buffer = Filled(<<>>, 0, x.datFile.MFTData[x.index].Size, 0)]
\* the seek and the read, whose count of bytes is dropped, and the return of
\* an entry that is not compressed
extractRead(x) ==
  IF FileRead(x.file, x.mftEntry.Offset, x.mftEntry.Size).err # ""
  THEN [x EXCEPT !.pc = "return", !.err = "failed to read MFT data"]
  ELSE [x EXCEPT
          !.pc = IF x.mftEntry.CompressionFlag # 0 THEN "inflate" ELSE "return",
          !.buffer = Filled(x.file, x.mftEntry.Offset, x.mftEntry.Size,
                            FileRead(x.file, x.mftEntry.Offset, x.mftEntry.Size).n),
          !.data = IF x.mftEntry.CompressionFlag # 0 THEN <<>>
                   ELSE Filled(x.file, x.mftEntry.Offset, x.mftEntry.Size,
                               FileRead(x.file, x.mftEntry.Offset, x.mftEntry.Size).n)]
\* the return of a compressed entry, r the inflateBuffer call that ended
extractInflated(x, r) ==
  IF r.s.halt # "run" THEN [x EXCEPT !.halt = r.s.halt]
  ELSE IF r.c.err # "" THEN [x EXCEPT !.pc = "return", !.err = "decompression failed"]
  ELSE [x EXCEPT !.pc = "return", !.data = r.c.outputBuffer]

---------------------------------------------------------------------------
(* SpecExtract: one call of extractMFTData on a handle that loadDatFile    *)
(* filled.  loadDatFile keeps every record as it reads it, whatever its    *)
(* BaseID, and extractMFTData opens a file by a path of its own, so the    *)
(* length of that file is independent of the handle.                       *)

\* bounds of the handle
MaxEntries == 3
MaxRecords == 2

\* the file extractMFTData opens: a compressed payload, then four raw bytes
Compressed == Payload(2, 0, <<Literal(65), Literal(66)>>)
FileBytes == Compressed \o <<16, 17, 18, 19>>
\* the file whole, cut inside the raw bytes, and cut inside the payload
FileLengths == {Len(FileBytes), Len(Compressed) + 2, 8}

\* entries of the MFT: the payload, three bytes flagged as compressed, the
\* raw bytes, and a range that ends two bytes past the end of the whole file
EntryChoices ==
  { [Offset |-> 0, Size |-> Len(Compressed), CompressionFlag |-> 8],
    [Offset |-> Len(Compressed), Size |-> 3, CompressionFlag |-> 8],
    [Offset |-> Len(Compressed), Size |-> 4, CompressionFlag |-> 0],
    [Offset |-> Len(Compressed) + 2, Size |-> 4, CompressionFlag |-> 0] }
\* MFTData[MftEntryIndexNum] describes the index table: loadDatFile reads
\* Size / 8 records
IndexEntry(records) ==
  [Offset |-> 0, Size |-> 8 * Len(records), CompressionFlag |-> 0]
IndexRecords ==
  { [FileID |-> 7, BaseID |-> 0], [FileID |-> 7, BaseID |-> 1],
    [FileID |-> 7, BaseID |-> 3], [FileID |-> 7, BaseID |-> MaxEntries + 1],
    [FileID |-> 9, BaseID |-> 1] }
IndexTables == UNION { [1..n -> IndexRecords] : n \in 0..MaxRecords }
\* the entries after the index table's, uncompressed ones
MoreEntries ==
  UNION { [1..n -> { e \in EntryChoices : e.CompressionFlag = 0 }] :
            n \in 0..(MaxEntries - 2) }
Handles ==
  { [MFTData |-> <<e>> \o <<IndexEntry(records)>> \o more, MFTIndexData |-> records] :
      e \in EntryChoices, records \in IndexTables, more \in MoreEntries }

ExtractInit ==
  /\ \E datFile \in Handles : \E len \in FileLengths :
       \E number \in {1, 7} : \E isFileID \in BOOLEAN :
         extraction = NewExtraction(datFile, SubSeq(FileBytes, 1, len),
                                    number, isFileID)
  /\ huffmanTreeDict = EmptyTree
  /\ huffmanTreeDictInitialized = FALSE
  /\ stateData = NewState([kind |-> "words", words |-> <<>>])
  /\ pump = Idle
  /\ codec = Idle
  /\ call = Idle
  /\ callers = Idle

Extracting == extraction.pc # "return" /\ extraction.halt = "run"

ExtractScan ==
  /\ Extracting /\ extraction.pc = "scan"
  /\ extraction' = extractScan(extraction)
  /\ UNCHANGED <<dictVars, notExtract>>
ExtractEntry ==
  /\ Extracting /\ extraction.pc = "entry"
  /\ extraction' = extractEntry(extraction)
  /\ UNCHANGED <<dictVars, notExtract>>
ExtractRead ==
  /\ Extracting /\ extraction.pc = "read"
  /\ extraction' = extractRead(extraction)
  /\ UNCHANGED <<dictVars, notExtract>>
\* inflateBuffer(buffer, &outputBufferSize, 0) with outputBufferSize 0
ExtractInflate ==
  /\ Extracting /\ extraction.pc = "inflate"
  /\ \E r \in { inflateBuffer(extraction.buffer, 0, 0,
                  [tree |-> huffmanTreeDict,
                   initialized |-> huffmanTreeDictInitialized]) } :
       /\ extraction' = extractInflated(extraction, r)
       /\ huffmanTreeDict' = r.d.tree
       /\ huffmanTreeDictInitialized' = r.d.initialized
  /\ UNCHANGED notExtract

ExtractNext ==
  \/ ExtractScan
  \/ ExtractEntry
  \/ ExtractRead
  \/ ExtractInflate

SpecExtract == ExtractInit /\ [][ExtractNext]_vars


---------------------------------------------------------------------------
(* The claims about extractMFTData                                         *)

\* whether record i of the handle's index table matches the key
Matches(x, i) ==
  IF x.isFileID THEN x.datFile.MFTIndexData[i].FileID = x.number
  ELSE x.datFile.MFTIndexData[i].BaseID = x.number
Found(x) == \E i \in 1..Len(x.datFile.MFTIndexData) : Matches(x, i)
\* the first record in stored order that matches the key
FirstMatch(x) ==
  x.datFile.MFTIndexData[CHOOSE i \in 1..Len(x.datFile.MFTIndexData) :
                           Matches(x, i) /\ \A j \in 1..(i - 1) : ~Matches(x, j)]
\* the call has taken its MFT entry
Resolved == extraction.pc \in {"read", "inflate", "return"} /\ extraction.index # -1

\* C1: extract resolves to the first record in stored order whose FileID or
\* BaseID (by kind) equals the key, whatever records match later, and the
\* entry whose payload is read is MFTData[r.BaseID - 1].
C1_FirstMatchingRecord ==
  Resolved =>
    /\ Found(extraction)
    /\ extraction.index = FirstMatch(extraction).BaseID
    /\ extraction.mftEntry
         = Elem(extraction.datFile.MFTData, FirstMatch(extraction).BaseID - 1, <<>>)
C1_Witness ==
  /\ extraction.pc = "return" /\ extraction.err = "" /\ extraction.halt = "run"
  /\ extraction.isFileID
  /\ Len(extraction.datFile.MFTIndexData) = 2
  /\ Matches(extraction, 1) /\ Matches(extraction, 2)
  /\ extraction.datFile.MFTIndexData[1].BaseID = 3
  /\ extraction.datFile.MFTIndexData[2].BaseID = 1
  /\ extraction.datFile.MFTData[3] # extraction.datFile.MFTData[1]
  /\ extraction.mftEntry = extraction.datFile.MFTData[3]
  /\ extraction.data = <<16, 17, 18, 19>>

\* the first matching record points outside the entry array
BadBaseID(x) ==
  /\ Found(x)
  /\ \/ FirstMatch(x).BaseID = 0
     \/ FirstMatch(x).BaseID - 1 >= Len(x.datFile.MFTData)
\* the call is past "mftEntry := datFile.MFTData[index-1]", or ended there
PastEntry == extraction.pc \in {"read", "inflate", "return"} \/ extraction.halt # "run"

\* C2: when the first matching record has BaseID = 0 or BaseID - 1 >=
\* NumEntries, extract returns a CorruptIndex error to its caller and never
\* indexes the entry array outside [0, NumEntries).
C2_CorruptIndexReported ==
  (BadBaseID(extraction) /\ PastEntry) =>
    /\ extraction.pc = "return"
    /\ extraction.err = "CorruptIndex"
    /\ extraction.halt = "run"

\* C3: when the resolved entry's Offset + Size is greater than the length of
\* the file, also with Offset below that length, extract fails with an error
\* and returns no payload.
C3_TruncatedRangeFails ==
  (/\ Resolved /\ extraction.pc = "return" /\ extraction.halt = "run"
   /\ extraction.mftEntry.Offset + extraction.mftEntry.Size > Len(extraction.file))
    => (extraction.err # "" /\ extraction.data = <<>>)


---------------------------------------------------------------------------
(* The claims about the blocks of inflateData                              *)

\* K: the low 4 bits of the top byte of the stream's third word
KOf(input) == input[12] % 16
\* the call is in the outer loop of inflateData, or past it
InLoop == call.pc \in {"block", "code", "copy", "return"} /\ call.err = ""

\* C11 as stated: every pass of the outer loop begins by consuming an 8-bit
\* field of its own, from which the S of that block comes.
C11_EveryBlockReadsField ==
  (InLoop /\ call.pc # "block") => call.fields = call.blocks

\* C11 amended: the 8-bit field is consumed once, before the first pass of
\* the outer loop; every pass begins with its symbol tree, and the S added
\* to the copy lengths of every block is K + 1 of that one field.
C11_FieldReadOnce ==
  InLoop =>
    /\ call.fields = 1
    /\ call.writeSizeConstantAddition = KOf(call.inputBuffer) + 1
    /\ call.writeSize # 0 => call.writeSize >= KOf(call.inputBuffer) + 1
C11_Witness ==
  /\ call.pc = "return" /\ stateData.halt = "run"
  /\ call.blocks = 2 /\ call.fields = 1
  /\ KOf(call.inputBuffer) = 3
  /\ call.writeSize = 4
  /\ call.tempOutputPosition = BlockCodes + 5
  /\ SubSeq(call.outputBuffer, BlockCodes, BlockCodes + 5) = <<65, 66, 66, 66, 66, 66>>

\* C13: for every copy-tree symbol d with u = d / 2 and 1 <= u <= 16 the
\* base distance is 2^(u-1) * (2 + d mod 2) as a 32-bit value (65536 for
\* d = 32, 98304 for d = 33), and the final distance is that value OR-ed with
\* the u - 1 additional bits, plus 1.
C13_DistanceBase ==
  (/\ call.pc = "copy" /\ stateData.halt = "run"
   /\ call.distanceCode \div 2 \in 1..16)
  => /\ call.distanceBase
          = (2 ^ ((call.distanceCode \div 2) - 1)) * (2 + (call.distanceCode % 2))
     /\ (call.writeOffset - 1) - call.distanceBase
          \in 0..((2 ^ ((call.distanceCode \div 2) - 1)) - 1)

\* whether the decoder's loops are running on the allocated output buffer
LoopsRunning == call.pc \in {"block", "code", "copy"}

\* C14: at every step of inflate tempOutputPosition never exceeds the loop
\* bound passed to the decoder, the bound is the buffer's length, so every
\* write index (always tempOutputPosition) is inside the buffer and the
\* process never stops on a write past its end; a copy that has not written
\* its whole length has stopped exactly at the bound.
C14_WritesInsideBuffer ==
  /\ call.tempOutputPosition <= call.outputBufferSize
  /\ LoopsRunning =>
       /\ call.outputBufferSize = Len(call.outputBuffer)
       /\ stateData.halt = "panic" => call.tempOutputPosition < Len(call.outputBuffer)
  /\ (/\ call.pc \in {"code", "block", "return"} /\ stateData.halt = "run"
      /\ call.alreadyWritten < call.writeSize)
     => call.tempOutputPosition = call.outputBufferSize
C14_Witness ==
  /\ call.pc = "return" /\ stateData.halt = "run"
  /\ call.writeSize > 0
  /\ call.alreadyWritten > 0
  /\ call.alreadyWritten < call.writeSize
  /\ call.tempOutputPosition = call.outputBufferSize
  /\ call.outputBufferSize = Len(call.outputBuffer)

---------------------------------------------------------------------------
(* SpecParse: parseHuffmanTree on a tree description, a pass of its loop   *)
(* at a time.  codec holds its locals: the number of symbols read from the *)
(* header, the working tables and remainingSymbol.                         *)

\* bounds of the descriptions
MaxRuns == 3
\* the header's numbers of symbols: small alphabets, the largest one allowed
\* less one, and the first ones above MAX_SYMBOL_VALUE
SymbolCounts == {1, 2, 3, MAX_SYMBOL_VALUE - 1, MAX_SYMBOL_VALUE + 1, MAX_SYMBOL_VALUE + 2}
\* a run: count symbols of one bit length, 0 for symbols without a code
Run(bits, count) == [bits |-> bits, count |-> count]
Runs == { Run(0, 2), Run(1, 1), Run(1, 3), Run(2, 2) }
RunBits(run) == TableCode(DictTable, (run.count - 1) * 32 + run.bits)
RECURSIVE RunsBits(_)
RunsBits(runs) == IF runs = <<>> THEN <<>> ELSE RunBits(Head(runs)) \o RunsBits(Tail(runs))
Descriptions == UNION { [1..k -> Runs] : k \in 0..MaxRuns }
\* the bits of a description: the 16-bit number of symbols, then the runs
DescriptionBits(n, runs) == SubSeq(BitsOf(n, 16), 1, 16) \o RunsBits(runs)

ParseInit ==
  /\ \E n \in SymbolCounts : \E runs \in Descriptions :
       stateData = NewState(StreamOf(DescriptionBits(n, runs), 0))
  /\ codec = [pc |-> "count", numberSymbolData |-> 0, tabs |-> EmptyTabs,
              remainingSymbol |-> 0, tree |-> EmptyTree]
  /\ pump = Idle
  /\ call = Idle
  /\ huffmanTreeDict = initializeHuffmanTreeDict
  /\ huffmanTreeDictInitialized = TRUE
  /\ callers = Idle
  /\ extraction = Idle

\* the locals after the header: numberSymbolData is a uint16, numberSymbol
\* its int16; a number above MAX_SYMBOL_VALUE is reported on stderr only
ParseCounted(n) ==
  [codec EXCEPT !.pc = IF n.halt = "run" THEN "runs" ELSE "ended",
                !.numberSymbolData = IF n.halt = "run" THEN Low16(readBits(n, 16)) ELSE 0,
                !.remainingSymbol =
                   IF n.halt = "run" THEN Int16(Int16(Low16(readBits(n, 16))) - 1) ELSE 0]

\* the number of symbols is read
ParseCount ==
  /\ codec.pc = "count"
  /\ stateData' = IF needBits(stateData, 16).halt = "run"
                  THEN dropBits(needBits(stateData, 16), 16)
                  ELSE needBits(stateData, 16)
  /\ codec' = ParseCounted(needBits(stateData, 16))
  /\ UNCHANGED notCodec

\* the locals after a pass of the loop
ParsePassed(w) ==
  [codec EXCEPT !.tabs = w.tabs, !.remainingSymbol = w.remainingSymbol,
                !.pc = IF w.s.halt # "run" \/ w.tabs.halt # "run" THEN "ended" ELSE "runs"]

\* one pass of the loop "for remainingSymbol >= 0"
ParsePass ==
  /\ codec.pc = "runs"
  /\ codec.remainingSymbol >= 0
  /\ LET w == ParseStep(huffmanTreeDict,
                        [s |-> stateData, tabs |-> codec.tabs,
                         remainingSymbol |-> codec.remainingSymbol])
     IN  /\ stateData' = IF w.tabs.halt # "run" THEN Panic(w.s) ELSE w.s
         /\ codec' = ParsePassed(w)
  /\ UNCHANGED notCodec

\* the tree is built from the working tables
ParseBuild ==
  /\ codec.pc = "runs"
  /\ codec.remainingSymbol < 0
  /\ LET p == parseBuild([s |-> stateData, tabs |-> codec.tabs,
                          remainingSymbol |-> codec.remainingSymbol])
     IN  /\ stateData' = p.s
         /\ codec' = [codec EXCEPT !.pc = "return", !.tree = p.tree]
  /\ UNCHANGED notCodec

ParseNext == ParseCount \/ ParsePass \/ ParseBuild

SpecParse == ParseInit /\ [][ParseNext]_vars

\* the symbols registered in the working tables: the heads of the bit
\* lengths' chains, the symbols chained before them, and the symbols that
\* chain one
Registered(tabs) ==
  { tabs.bitTab[b] : b \in DOMAIN tabs.bitTab }
    \cup { tabs.codeTab[x] : x \in { y \in DOMAIN tabs.codeTab : tabs.codeTab[y] # -1 } }
    \cup { y \in DOMAIN tabs.codeTab : tabs.codeTab[y] # -1 }
Parsing == codec.pc \in {"runs", "ended", "return"}

\* C15: while a tree with n symbols in its header is parsed, every symbol
\* registered in the working tables lies in 0..n-1 and below 285: a header
\* with n > 285 is rejected before any registration, and a run longer than
\* the symbols remaining neither registers a negative symbol nor indexes the
\* working arrays out of range.
C15_RegisteredInRange ==
  Parsing =>
    /\ \A x \in Registered(codec.tabs) \ {-1} :
         x \in 0..(codec.numberSymbolData - 1) /\ x < MAX_SYMBOL_VALUE
    /\ codec.numberSymbolData > MAX_SYMBOL_VALUE => codec.tabs = EmptyTabs
    /\ codec.tabs.halt # "panic"

====
